---- MODULE Spec2Model ----
(***************************************************************************)
(* Model of UnrealQtFramework (framework.py): the activation of the        *)
(* vendored Qt packages done by init_framework(), the no-op               *)
(* destroy_framework() and the platform_name() class method.               *)
(*                                                                         *)
(* Strings are sequences of one-character strings, so that str.split,      *)
(* str.join, "%d" formatting, os.path.join and the regular expression of   *)
(* the library-folder search are computed character by character.          *)
(***************************************************************************)
EXTENDS Integers, Sequences, FiniteSets, TLC

(***************************************************************************)
(* Bounds of the model.                                                    *)
(***************************************************************************)
\* number of init_framework() calls the host makes in one process
MaxCalls == 2
\* number of entries os.listdir() returns for <base-path>/lib
MaxListing == 2
\* number of entries of the PATH variable before the first call
MaxPathEntries == 2
\* number of entries of sys.path before the first call
MaxSysPath == 2
\* number of directory lines in the .pth files of the site directory
MaxPth == 1

(***************************************************************************)
(* Strings.                                                                *)
(***************************************************************************)
\* a value that no string equals: an unset variable or attribute
Unset == <<"<unset>">>

Range(s) == {s[i] : i \in DOMAIN s}

\* the sequences over S of length at most n
SeqsUpTo(S, n) == UNION {[1..k -> S] : k \in 0..n}

\* the sequences over S of length at most n without a repeated element
DistinctSeqsUpTo(S, n) == {s \in SeqsUpTo(S, n) : Cardinality(Range(s)) = Len(s)}

DigitChars == <<"0", "1", "2", "3", "4", "5", "6", "7", "8", "9">>

IsDigit(c) == c \in Range(DigitChars)

\* "%d" % n for a natural number n
RECURSIVE FormatInt(_)
FormatInt(n) ==
    IF n < 10 THEN <<DigitChars[n + 1]>>
    ELSE FormatInt(n \div 10) \o <<DigitChars[(n % 10) + 1]>>

\* sep.join(parts)
RECURSIVE StrJoin(_, _)
StrJoin(sep, parts) ==
    IF parts = <<>> THEN <<>>
    ELSE IF Len(parts) = 1 THEN parts[1]
    ELSE parts[1] \o sep \o StrJoin(sep, Tail(parts))

\* s.split(sep) for a one-character separator: "".split(sep) is [""]
RECURSIVE StrSplit(_, _)
StrSplit(s, sep) ==
    IF \A i \in DOMAIN s : s[i] # sep THEN <<s>>
    ELSE LET i == CHOOSE j \in DOMAIN s :
                      s[j] = sep /\ \A k \in 1..(j - 1) : s[k] # sep
         IN  <<SubSeq(s, 1, i - 1)>> \o StrSplit(SubSeq(s, i + 1, Len(s)), sep)

(***************************************************************************)
(* The host: operating system, interpreter and file system.                *)
(***************************************************************************)
\* values platform.system() can return; "" is what it returns when the
\* system cannot be determined
Systems == {"Darwin", "Linux", "Windows", "FreeBSD", ""}

\* sys.version_info[0:2] of the interpreters considered
Versions == {<<3, 10>>, <<2, 7>>}

\* os.pathsep
PathSep(sys) == IF sys = "Windows" THEN ";" ELSE ":"

\* os.sep
DirSep(sys) == IF sys = "Windows" THEN "\\" ELSE "/"

\* os.path.join(a, b): posixpath.join, and ntpath.join for a component b
\* that has no drive
OsPathJoin2(sys, a, b) ==
    LET sep == DirSep(sys)
        ends == IF sys = "Windows" THEN {"\\", "/", ":"} ELSE {"/"}
        roots == IF sys = "Windows" THEN {"\\", "/"} ELSE {"/"}
    IN  IF b # <<>> /\ b[1] \in roots THEN b
        ELSE IF a = <<>> \/ a[Len(a)] \in ends THEN a \o b
        ELSE a \o <<sep>> \o b

\* os.path.join(a, *parts)
RECURSIVE OsPathJoin(_, _, _)
OsPathJoin(sys, a, parts) ==
    IF parts = <<>> THEN a
    ELSE OsPathJoin(sys, OsPathJoin2(sys, a, parts[1]), Tail(parts))

\* os.path.dirname(__file__): the directory the framework is installed in,
\* reached through a symbolic link
FrameworkDir(sys) ==
    IF sys = "Windows" THEN <<"C", ":", "\\", "l">> ELSE <<"/", "l">>

\* the directory the link of FrameworkDir points to
FrameworkRealDir(sys) ==
    IF sys = "Windows" THEN <<"C", ":", "\\", "f">> ELSE <<"/", "f">>

\* os.path.realpath(p) in a file system whose only link is FrameworkDir
RealPath(sys, p) ==
    LET d == FrameworkDir(sys)
    IN  IF Len(p) >= Len(d) /\ SubSeq(p, 1, Len(d)) = d
           /\ (Len(p) = Len(d) \/ p[Len(d) + 1] = DirSep(sys))
        THEN FrameworkRealDir(sys) \o SubSeq(p, Len(d) + 1, Len(p))
        ELSE p

S_python == <<"p", "y", "t", "h", "o", "n">>
S_vendors == <<"v", "e", "n", "d", "o", "r", "s">>
S_py == <<"p", "y">>
S_lib == <<"l", "i", "b">>
S_Lib == <<"L", "i", "b">>
S_site_packages == <<"s", "i", "t", "e", "-", "p", "a", "c", "k", "a", "g", "e", "s">>
S_Scripts == <<"S", "c", "r", "i", "p", "t", "s">>
S_bin == <<"b", "i", "n">>
S_osx == <<"o", "s", "x">>
S_linux == <<"l", "i", "n", "u", "x">>
S_windows == <<"w", "i", "n", "d", "o", "w", "s">>

\* names a directory listing of <base-path>/lib can hold
FolderNames ==
    { S_python \o <<"3", ".", "1", "0">>,
      S_python \o <<"3", ".", "9">>,
      S_python \o <<"2", ".", "7">>,
      <<"P">> \o Tail(S_python) \o <<"3", ".", "1", "0">>,
      S_python \o <<"3", ".", "1", "0", "m">>,
      S_python \o <<"3", ".", "1", "0", "\n">>,
      S_python \o <<"3", ".">> }

\* what os.listdir(<base-path>/lib) can return: the names in any order
Listings == DistinctSeqsUpTo(FolderNames, MaxListing)

(***************************************************************************)
(* platform_name() and the search of the library folder.                   *)
(***************************************************************************)
\* platform_names.get(system): the canonical name, or Unset for None
PlatformNames(sys) ==
    CASE sys = "Darwin" -> S_osx
      [] sys = "Linux" -> S_linux
      [] sys = "Windows" -> S_windows
      [] OTHER -> Unset

\* re.match(r"^python%d\.\d+$" % python_major, folder): "$" matches at the
\* end of the string and also before a newline that ends the string
ReMatchPython(python_major, folder) ==
    LET lit == S_python \o FormatInt(python_major) \o <<".">>
        n == Len(lit)
        ends == {Len(folder)} \cup
                (IF folder # <<>> /\ folder[Len(folder)] = "\n"
                 THEN {Len(folder) - 1} ELSE {})
    IN  /\ Len(folder) >= n
        /\ SubSeq(folder, 1, n) = lit
        /\ \E e \in ends :
              /\ e > n
              /\ \A i \in (n + 1)..e : IsDigit(folder[i])

\* the loop over lib_folders keeping the last folder that matches
FirstPythonFolder_keeps_last(python_major, lib_folders) ==
    LET hits == {i \in DOMAIN lib_folders :
                    ReMatchPython(python_major, lib_folders[i])}
    IN  IF hits = {} THEN Unset
        ELSE lib_folders[CHOOSE i \in hits : \A j \in hits : i >= j]

\* the for ... else loop over lib_folders: the first folder that matches,
\* or Unset when the loop ends without a break
FirstPythonFolder(python_major, lib_folders) ==
    LET hits == {i \in DOMAIN lib_folders :
                    ReMatchPython(python_major, lib_folders[i])}
    IN  IF hits = {} THEN Unset
        ELSE lib_folders[CHOOSE i \in hits : \A j \in hits : i <= j]

\* bin_folder without the Windows case
BinFolder_always_bin(pname) == S_bin

\* bin_folder of init_framework
BinFolder(pname) == IF pname = S_windows THEN S_Scripts ELSE S_bin

\* base_path of init_framework
BasePath(sys, ver, pname) ==
    RealPath(sys,
        OsPathJoin(sys, FrameworkDir(sys),
            << S_python, S_vendors,
               S_py \o FormatInt(ver[1]) \o <<".">> \o FormatInt(ver[2]),
               pname >>))

\* site_path of init_framework on Windows
WindowsSitePath(sys, base) == OsPathJoin(sys, base, <<S_Lib, S_site_packages>>)

\* site_path of init_framework on the other platforms
PosixSitePath(sys, base, folder) ==
    OsPathJoin(sys, base, <<S_lib, folder, S_site_packages>>)

\* platform_name() returning None for a platform it does not know
platform_name_returns_none(sys) ==
    [raised |-> FALSE, value |-> PlatformNames(sys), exc |-> "none", args |-> <<>>]

\* platform_name(): the name returned, or the ValueError raised with the
\* raw platform.system() value in its message
platform_name(sys) ==
    LET name == PlatformNames(sys)
    IN  IF name = Unset
        THEN [raised |-> TRUE, value |-> Unset, exc |-> "ValueError", args |-> <<sys>>]
        ELSE [raised |-> FALSE, value |-> name, exc |-> "none", args |-> <<>>]

(***************************************************************************)
(* site.addsitedir(), as init_framework() uses it.                         *)
(***************************************************************************)
\* a line of a .pth file that is executed and exits the interpreter, as
\* "import sys; sys.exit()" does: SystemExit is not caught by the site module
PthImportExit == <<"<import sys; sys.exit()>">>

\* a directory no search path holds before the first call
PthNewDir == <<"/", "q">>

\* a directory the search path can hold before the first call
OtherDir == <<"/", "u">>

\* the lines the .pth files of the site directory can hold, in the order
\* the site module reads them
PthLines == {PthNewDir, OtherDir, PthImportExit}

PthFiles == SeqsUpTo(PthLines, MaxPth)

\* site.addpackage over the lines: a directory not yet known is appended
RECURSIVE AddPackage(_, _, _)
AddPackage(path, known, lines) ==
    IF lines = <<>> THEN [path |-> path, raised |-> FALSE]
    ELSE IF lines[1] = PthImportExit THEN [path |-> path, raised |-> TRUE]
    ELSE IF lines[1] \in known THEN AddPackage(path, known, Tail(lines))
    ELSE AddPackage(Append(path, lines[1]), known \cup {lines[1]}, Tail(lines))

\* site.addsitedir(sitedir): known_paths holds the entries of sys.path that
\* exist; sitedir is appended unless known; its .pth files are read when
\* it can be listed
AddSiteDir(path, sitedir, exists, lines) ==
    LET known0 == IF exists THEN Range(path) ELSE Range(path) \ {sitedir}
        path1 == IF sitedir \in known0 THEN path ELSE Append(path, sitedir)
    IN  IF exists THEN AddPackage(path1, known0 \cup {sitedir}, lines)
        ELSE [path |-> path1, raised |-> FALSE]

\* sys.path[prev_length:] + sys.path[0:prev_length]
Rotate(path, prev_length) ==
    SubSeq(path, prev_length + 1, Len(path)) \o SubSeq(path, 1, prev_length)

\* the value assigned to os.environ["PATH"]
NewPath(sys, old, base, bin) ==
    LET sep == PathSep(sys)
        got == IF old = Unset THEN <<>> ELSE old
    IN  StrJoin(<<sep>>, <<OsPathJoin(sys, base, <<bin>>)>> \o StrSplit(got, sep))

(***************************************************************************)
(* The process.                                                            *)
(***************************************************************************)
VARIABLES
    system,          \* platform.system()
    version,         \* sys.version_info[0:2]
    vendor,          \* the vendor tree under base_path, which is only read
    environ,         \* os.environ: VIRTUAL_ENV and PATH
    sys_path,        \* sys.path
    sys_prefix,      \* sys.prefix
    sys_real_prefix, \* sys.real_prefix
    pc,              \* the statement of init_framework() to execute next
    pname,           \* local of init_framework()
    bin_folder,      \* local of init_framework()
    base_path,       \* local of init_framework()
    folder,          \* local of init_framework(): the loop variable
    site_path,       \* local of init_framework()
    result,          \* how the last call ended
    pre,             \* the process state when the running or last init_framework() was entered
    n_platform,      \* platform_name() calls of that init_framework()
    n_listdir,       \* os.listdir() calls of that init_framework()
    calls            \* init_framework() calls made

globals == <<environ, sys_path, sys_prefix, sys_real_prefix>>
locals == <<pname, bin_folder, base_path, folder, site_path>>
host == <<system, version, vendor>>
vars == <<host, globals, pc, locals, result, pre, n_platform, n_listdir, calls>>

Snapshot ==
    [environ |-> environ, sys_path |-> sys_path, sys_prefix |-> sys_prefix,
     sys_real_prefix |-> sys_real_prefix]

NoResult == [op |-> "none", status |-> "none", value |-> Unset,
             exc |-> "none", args |-> <<>>, at |-> "none"]

Running(op) == [NoResult EXCEPT !.op = op, !.status = "running"]

Returned(op, value, at) ==
    [NoResult EXCEPT !.op = op, !.status = "returned", !.value = value, !.at = at]

Raised(op, exc, args, at) ==
    [NoResult EXCEPT !.op = op, !.status = "raised", !.exc = exc, !.args = args, !.at = at]

\* the library folder of a vendor tree built for this interpreter
ExpectedFolder(ver) == S_python \o FormatInt(ver[1]) \o <<".">> \o FormatInt(ver[2])

\* the library directory of a vendor tree built for this host
ExpectedSitePath(sys, ver) ==
    LET base == BasePath(sys, ver, PlatformNames(sys))
    IN  IF sys = "Windows" THEN WindowsSitePath(sys, base)
        ELSE PosixSitePath(sys, base, ExpectedFolder(ver))

\* directories sys.path can hold before the first call
SysPathDirs(sys, ver) ==
    IF PlatformNames(sys) = Unset THEN {OtherDir}
    ELSE {OtherDir, ExpectedSitePath(sys, ver)}

\* entries PATH can hold before the first call
PathEntries == {<<"a">>, <<"b">>, <<>>}

\* values of PATH before the first call
PathValues(sys) ==
    {Unset} \cup {StrJoin(<<PathSep(sys)>>, es) :
                     es \in DistinctSeqsUpTo(PathEntries, MaxPathEntries)}

\* a virtual environment activated before the process started
OtherVenv == <<"/", "v">>

\* the vendor tree as shipped for this interpreter, and the process state a
\* host usually starts with
DefaultVendor(ver) == [lib |-> <<ExpectedFolder(ver)>>, site_exists |-> TRUE, pth |-> <<>>]
DefaultEnviron(sys) ==
    [VIRTUAL_ENV |-> Unset, PATH |-> StrJoin(<<PathSep(sys)>>, << <<"a">>, <<"b">> >>)]
DefaultSysPath == <<OtherDir>>

\* The inputs vary along one axis at a time: the environment, the module
\* search path with the site directory, or the listing of <base-path>/lib.
InitEnvironment ==
    /\ environ \in [VIRTUAL_ENV : {Unset, OtherVenv}, PATH : PathValues(system)]
    /\ sys_path = DefaultSysPath
    /\ vendor = DefaultVendor(version)

InitSearchPath ==
    /\ environ = DefaultEnviron(system)
    /\ sys_path \in DistinctSeqsUpTo(SysPathDirs(system, version), MaxSysPath)
    /\ vendor \in [lib : {<<ExpectedFolder(version)>>}, site_exists : BOOLEAN, pth : PthFiles]

InitVendorLib ==
    /\ environ = DefaultEnviron(system)
    /\ sys_path = DefaultSysPath
    /\ vendor \in [lib : Listings \cup {Unset}, site_exists : {TRUE}, pth : {<<>>}]

Init ==
    /\ system \in Systems
    /\ version \in Versions
    /\ \/ InitEnvironment
       \/ InitSearchPath
       \/ InitVendorLib
    /\ sys_prefix = OtherDir
    /\ sys_real_prefix = Unset
    /\ pc = "idle"
    /\ pname = Unset
    /\ bin_folder = Unset
    /\ base_path = Unset
    /\ folder = Unset
    /\ site_path = Unset
    /\ result = NoResult
    /\ pre = Snapshot
    /\ n_platform = 0
    /\ n_listdir = 0
    /\ calls = 0

\* init_framework() with the platform name computed before the import of
\* QtCore is tried
Probe_maps_platform_first ==
    /\ pc = "idle"
    /\ calls < MaxCalls
    /\ calls' = calls + 1
    /\ pre' = Snapshot
    /\ n_platform' = 1
    /\ n_listdir' = 0
    /\ pname' = Unset
    /\ bin_folder' = Unset
    /\ base_path' = Unset
    /\ folder' = Unset
    /\ site_path' = Unset
    /\ \E qt_available \in BOOLEAN :
          IF qt_available
          THEN /\ result' = Returned("init_framework", Unset, "probe")
               /\ pc' = "idle"
          ELSE /\ result' = Running("init_framework")
               /\ pc' = "platform_name"
    /\ UNCHANGED <<host, globals>>

\* init_framework(), lines 34-43: the import of QtCore is tried
Probe ==
    /\ pc = "idle"
    /\ calls < MaxCalls
    /\ calls' = calls + 1
    /\ pre' = Snapshot
    /\ n_platform' = 0
    /\ n_listdir' = 0
    /\ pname' = Unset
    /\ bin_folder' = Unset
    /\ base_path' = Unset
    /\ folder' = Unset
    /\ site_path' = Unset
    /\ \E qt_available \in BOOLEAN :
          IF qt_available
          THEN /\ result' = Returned("init_framework", Unset, "probe")
               /\ pc' = "idle"
          ELSE /\ result' = Running("init_framework")
               /\ pc' = "platform_name"
    /\ UNCHANGED <<host, globals>>

\* init_framework(), lines 45-67: pname, bin_folder and base_path
MapPlatform ==
    /\ pc = "platform_name"
    /\ n_platform' = n_platform + 1
    /\ LET r == platform_name(system)
       IN  IF r.raised
           THEN /\ result' = Raised("init_framework", r.exc, r.args, pc)
                /\ pc' = "idle"
                /\ UNCHANGED <<pname, bin_folder, base_path>>
           ELSE /\ pname' = r.value
                /\ bin_folder' = BinFolder(r.value)
                /\ base_path' = BasePath(system, version, r.value)
                /\ pc' = "site_path"
                /\ UNCHANGED result
    /\ UNCHANGED <<host, globals, folder, site_path, pre, n_listdir, calls>>

\* init_framework(), lines 69-94: site_path, from the fixed Windows layout
\* or from the listing of <base-path>/lib
Discover ==
    /\ pc = "site_path"
    /\ IF pname = S_windows
       THEN /\ site_path' = WindowsSitePath(system, base_path)
            /\ pc' = "set_virtual_env"
            /\ UNCHANGED <<folder, result, n_listdir>>
       ELSE /\ n_listdir' = n_listdir + 1
            /\ LET lib_folders == vendor.lib
               IN  IF lib_folders = Unset
                   THEN /\ result' = Raised("init_framework", "OSError", <<>>, pc)
                        /\ pc' = "idle"
                        /\ UNCHANGED <<folder, site_path>>
                   ELSE LET found == FirstPythonFolder(version[1], lib_folders)
                        IN  IF found = Unset
                            THEN /\ result' = Raised("init_framework", "RuntimeError",
                                                     <<version[1], lib_folders>>, pc)
                                 /\ pc' = "idle"
                                 /\ folder' = IF lib_folders = <<>> THEN Unset
                                              ELSE lib_folders[Len(lib_folders)]
                                 /\ UNCHANGED site_path
                            ELSE /\ folder' = found
                                 /\ site_path' = PosixSitePath(system, base_path, found)
                                 /\ pc' = "set_virtual_env"
                                 /\ UNCHANGED result
    /\ UNCHANGED <<host, globals, pname, bin_folder, base_path, pre, n_platform, calls>>

\* init_framework(), line 96
SetVirtualEnv ==
    /\ pc = "set_virtual_env"
    /\ environ' = [environ EXCEPT !.VIRTUAL_ENV = base_path]
    /\ pc' = "set_path"
    /\ UNCHANGED <<host, sys_path, sys_prefix, sys_real_prefix, locals, result, pre,
                   n_platform, n_listdir, calls>>

\* lines 99-101 with VIRTUAL_ENV restored when the assignment raises
SetPath_rolls_back ==
    /\ pc = "set_path"
    /\ \/ /\ environ' = [environ EXCEPT
                            !.PATH = NewPath(system, environ.PATH, base_path, bin_folder)]
          /\ pc' = "addsitedir"
          /\ UNCHANGED result
       \/ /\ result' = Raised("init_framework", "OSError", <<>>, pc)
          /\ pc' = "idle"
          /\ environ' = pre.environ
    /\ UNCHANGED <<host, sys_path, sys_prefix, sys_real_prefix, locals, pre,
                   n_platform, n_listdir, calls>>

\* init_framework(), lines 99-101; the assignment to os.environ raises when
\* the operating system refuses the new value
SetPath ==
    /\ pc = "set_path"
    /\ \/ /\ environ' = [environ EXCEPT
                            !.PATH = NewPath(system, environ.PATH, base_path, bin_folder)]
          /\ pc' = "addsitedir"
          /\ UNCHANGED result
       \/ /\ result' = Raised("init_framework", "OSError", <<>>, pc)
          /\ pc' = "idle"
          /\ UNCHANGED environ
    /\ UNCHANGED <<host, sys_path, sys_prefix, sys_real_prefix, locals, pre,
                   n_platform, n_listdir, calls>>

\* init_framework(), lines 104-106; SystemExit leaves site.addsitedir() and
\* init_framework() before the entries are moved
AddSite ==
    /\ pc = "addsitedir"
    /\ LET prev_length == Len(sys_path)
           r == AddSiteDir(sys_path, site_path, vendor.site_exists, vendor.pth)
       IN  IF r.raised
           THEN /\ sys_path' = r.path
                /\ result' = Raised("init_framework", "SystemExit", <<>>, pc)
                /\ pc' = "idle"
           ELSE /\ sys_path' = Rotate(r.path, prev_length)
                /\ pc' = "set_prefix"
                /\ UNCHANGED result
    /\ UNCHANGED <<host, environ, sys_prefix, sys_real_prefix, locals, pre,
                   n_platform, n_listdir, calls>>

\* init_framework(), lines 108-109, and the return
SetPrefix ==
    /\ pc = "set_prefix"
    /\ sys_real_prefix' = sys_prefix
    /\ sys_prefix' = base_path
    /\ result' = Returned("init_framework", Unset, "end")
    /\ pc' = "idle"
    /\ UNCHANGED <<host, environ, sys_path, locals, pre, n_platform, n_listdir, calls>>

\* destroy_framework() undoing the activation
DestroyFramework_deactivates ==
    /\ pc = "idle"
    /\ result' = Returned("destroy_framework", Unset, "end")
    /\ IF sys_real_prefix = Unset
       THEN UNCHANGED <<environ, sys_prefix, sys_real_prefix>>
       ELSE /\ sys_prefix' = sys_real_prefix
            /\ sys_real_prefix' = Unset
            /\ environ' = [environ EXCEPT !.VIRTUAL_ENV = Unset]
    /\ UNCHANGED <<host, sys_path, pc, locals, pre, n_platform, n_listdir, calls>>

\* destroy_framework()
DestroyFramework ==
    /\ pc = "idle"
    /\ result' = Returned("destroy_framework", Unset, "end")
    /\ UNCHANGED <<host, globals, pc, locals, pre, n_platform, n_listdir, calls>>

\* a call of the class method platform_name() by another component
PlatformNameCall ==
    /\ pc = "idle"
    /\ LET r == platform_name(system)
       IN  result' = IF r.raised
                     THEN Raised("platform_name", r.exc, r.args, "platform_name")
                     ELSE Returned("platform_name", r.value, "end")
    /\ UNCHANGED <<host, globals, pc, locals, pre, n_platform, n_listdir, calls>>

Next ==
    \/ Probe
    \/ MapPlatform
    \/ Discover
    \/ SetVirtualEnv
    \/ SetPath
    \/ AddSite
    \/ SetPrefix
    \/ DestroyFramework
    \/ PlatformNameCall

Spec == Init /\ [][Next]_vars

(***************************************************************************)
(* Properties.                                                             *)
(***************************************************************************)
\* init_framework() is running or was the last call to end
InitCall == result.op = "init_framework"

\* the last call was init_framework() and it returned at the probe
ReturnedAtProbe ==
    /\ pc = "idle"
    /\ InitCall
    /\ result.status = "returned"
    /\ result.at = "probe"

\* the last call was init_framework() and it ran to its end
Completed ==
    /\ pc = "idle"
    /\ InitCall
    /\ result.status = "returned"
    /\ result.at = "end"

\* C1: an init_framework() call whose probe finds Qt importable changes
\* nothing, whatever the process state it is made in: VIRTUAL_ENV, PATH,
\* sys.path, sys.prefix and sys.real_prefix are as they were when the call
\* was entered, and the call neither maps the platform nor lists a directory.
C1_ProbeSuccessMutatesNothing ==
    ReturnedAtProbe =>
        /\ environ = pre.environ
        /\ sys_path = pre.sys_path
        /\ sys_prefix = pre.sys_prefix
        /\ sys_real_prefix = pre.sys_real_prefix
        /\ n_platform = 0
        /\ n_listdir = 0

\* a call returns at the probe in a process an earlier call has activated
C1_Witness ==
    /\ ReturnedAtProbe
    /\ pre.sys_real_prefix # Unset
    /\ pre.environ.VIRTUAL_ENV # Unset

\* C2: platform_name() returns "osx" for "Darwin", "linux" for "Linux" and
\* "windows" for "Windows"; for any other system name, the empty one
\* included, it raises an error that carries the raw name and returns nothing.
C2_PlatformName ==
    result.op = "platform_name" =>
        CASE system = "Darwin" ->
                 result.status = "returned" /\ result.value = <<"o", "s", "x">>
          [] system = "Linux" ->
                 result.status = "returned" /\ result.value = <<"l", "i", "n", "u", "x">>
          [] system = "Windows" ->
                 result.status = "returned"
                 /\ result.value = <<"w", "i", "n", "d", "o", "w", "s">>
          [] OTHER ->
                 /\ result.status = "raised"
                 /\ result.exc = "ValueError"
                 /\ result.args = <<system>>
                 /\ result.value = Unset

\* platform_name() has raised for the empty system name
C2_Witness ==
    /\ result.op = "platform_name"
    /\ system = ""
    /\ result.status = "raised"
\* the names python<major>.<digits>: "python", the major version, a dot and
\* one or more decimal digits, and nothing else
IsPythonFolderName(major, name) ==
    LET lit == <<"p", "y", "t", "h", "o", "n">> \o FormatInt(major) \o <<".">>
    IN  /\ Len(name) > Len(lit)
        /\ SubSeq(name, 1, Len(lit)) = lit
        /\ \A i \in (Len(lit) + 1)..Len(name) :
              name[i] \in {"0", "1", "2", "3", "4", "5", "6", "7", "8", "9"}

\* the names the search accepts: python<major>.<digits>, and such a name
\* followed by one newline
IsAcceptedFolderName(major, name) ==
    \/ IsPythonFolderName(major, name)
    \/ /\ name # <<>>
       /\ name[Len(name)] = "\n"
       /\ IsPythonFolderName(major, SubSeq(name, 1, Len(name) - 1))

\* <base>/lib/<name>/site-packages
LibrarySitePackages(base, name) ==
    base \o <<"/", "l", "i", "b", "/">> \o name
         \o <<"/", "s", "i", "t", "e", "-", "p", "a", "c", "k", "a", "g", "e", "s">>

\* init_framework() has just resolved site_path on a platform other than Windows
DiscoveredOnPosix ==
    /\ InitCall
    /\ pc = "set_virtual_env"
    /\ pname # S_windows

\* C3 as stated: on a platform other than Windows, whenever the listing of
\* <base-path>/lib holds python<major>.<minor> of the running interpreter,
\* whatever else it holds and in whatever order, the library directory is
\* <base-path>/lib/python<major>.<minor>/site-packages. The listings taken
\* here hold no name that ends with a newline, the case of C4.
C3_AsStated ==
    ( /\ DiscoveredOnPosix
      /\ ExpectedFolder(version) \in Range(vendor.lib)
      /\ \A i \in DOMAIN vendor.lib : vendor.lib[i][Len(vendor.lib[i])] # "\n" )
    => site_path = LibrarySitePackages(base_path, ExpectedFolder(version))

\* C3 as amended: on a platform other than Windows the folder selected is
\* the first entry of the listing that the search accepts, that is a name
\* python<major>.<digits> of any minor version, possibly followed by one
\* newline, and the library directory is <base-path>/lib/<that entry>/
\* site-packages; so it is <base-path>/lib/python<major>.<minor>/
\* site-packages when python<major>.<minor> comes before every other
\* accepted entry. An entry the search does not accept is never selected.
C3_FirstAcceptedFolder ==
    DiscoveredOnPosix =>
        /\ \E i \in DOMAIN vendor.lib :
              /\ folder = vendor.lib[i]
              /\ IsAcceptedFolderName(version[1], folder)
              /\ \A j \in 1..(i - 1) : ~IsAcceptedFolderName(version[1], vendor.lib[j])
        /\ site_path = LibrarySitePackages(base_path, folder)
        /\ (\A j \in DOMAIN vendor.lib :
               IsAcceptedFolderName(version[1], vendor.lib[j])
                   => vendor.lib[j] = ExpectedFolder(version))
           => site_path = LibrarySitePackages(base_path, ExpectedFolder(version))

\* the folder of the running interpreter is selected behind an entry that
\* the search does not accept
C3_Witness ==
    /\ DiscoveredOnPosix
    /\ Len(vendor.lib) = 2
    /\ vendor.lib[2] = ExpectedFolder(version)
    /\ folder = ExpectedFolder(version)
    /\ site_path = LibrarySitePackages(base_path, ExpectedFolder(version))

\* C4: on a platform other than Windows, when the probe fails and no entry
\* of the listing of <base-path>/lib is a name python<major>.<digits>,
\* init_framework() raises the error that names the major version and the
\* entries examined, and VIRTUAL_ENV, PATH, sys.path, sys.prefix and
\* sys.real_prefix are as they were when the call was entered.
C4_NotFoundRaisesBeforeMutation ==
    ( /\ InitCall
      /\ n_listdir = 1
      /\ pname # S_windows
      /\ vendor.lib # Unset
      /\ \A i \in DOMAIN vendor.lib : ~IsPythonFolderName(version[1], vendor.lib[i]) )
    =>
        /\ pc = "idle"
        /\ result.status = "raised"
        /\ result.exc = "RuntimeError"
        /\ result.args = <<version[1], vendor.lib>>
        /\ environ = pre.environ
        /\ sys_path = pre.sys_path
        /\ sys_prefix = pre.sys_prefix
        /\ sys_real_prefix = pre.sys_real_prefix
\* the entries PATH held: none when the variable is unset or empty
PathEntriesOf(value, sep) ==
    IF value = Unset \/ value = <<>> THEN <<>> ELSE StrSplit(value, sep)

\* <base-path>/<binary-folder> with the separator of the platform
BinaryDirectory == base_path \o <<IF system = "Windows" THEN "\\" ELSE "/">> \o bin_folder

\* C5: after an init_framework() call that completes, PATH is the list whose
\* first entry is <base-path>/<binary-folder> and whose other entries are
\* the entries PATH held before the call, in the same order, joined with ";"
\* on Windows and ":" elsewhere; when PATH was unset or empty before the
\* call no entry follows the directory prepended.
C5_PathPrepended ==
    Completed =>
        LET sep == IF system = "Windows" THEN ";" ELSE ":"
        IN  StrSplit(environ.PATH, sep)
                = <<BinaryDirectory>> \o PathEntriesOf(pre.environ.PATH, sep)

\* C6: after an init_framework() call that completes, sys.path is the
\* library directory, then the entries site.addsitedir() added, then the
\* entries present before the call in their order, none lost and none
\* duplicated, also when sys.path held the library directory before. The
\* vendor trees taken here have the library directory, as the layout asks.
C6_SysPathOrder ==
    (Completed /\ vendor.site_exists) =>
        /\ sys_path # <<>>
        /\ sys_path[1] = site_path
        /\ \E k \in 0..Len(sys_path) :
              /\ SubSeq(sys_path, k + 1, Len(sys_path)) = pre.sys_path
              /\ \A i \in 1..k : sys_path[i] \notin Range(pre.sys_path)
              /\ \A i, j \in 1..k : sys_path[i] = sys_path[j] => i = j
\* C7: with the platform name "windows" the binary folder is "Scripts", the
\* library directory is <base-path>\Lib\site-packages, no directory is
\* listed and the error of the library-folder search is never raised; with
\* any other platform name the binary folder is "bin" and <base-path>/lib
\* is listed exactly once, by the discovery step.
C7_WindowsLayout ==
    (InitCall /\ pname # Unset) =>
        IF pname = <<"w", "i", "n", "d", "o", "w", "s">>
        THEN /\ bin_folder = <<"S", "c", "r", "i", "p", "t", "s">>
             /\ n_listdir = 0
             /\ result.exc # "RuntimeError"
             /\ pc \notin {"platform_name", "site_path"} =>
                    site_path = base_path
                        \o <<"\\", "L", "i", "b", "\\">>
                        \o <<"s", "i", "t", "e", "-", "p", "a", "c", "k", "a", "g", "e", "s">>
        ELSE /\ bin_folder = <<"b", "i", "n">>
             /\ n_listdir = IF pc = "site_path" THEN 0 ELSE 1

\* an activation has completed on Windows
C7_Witness ==
    /\ Completed
    /\ system = "Windows"
    /\ pname = S_windows
    /\ site_path \in Range(sys_path)

\* C8: destroy_framework() leaves VIRTUAL_ENV, PATH, sys.path, sys.prefix and
\* sys.real_prefix as they are, in every state it is called in; and no step
\* of any call takes back what an activation has set: VIRTUAL_ENV and
\* sys.real_prefix stay set, PATH does not shrink and sys.path loses no entry.
C8_DestroyIsNoOp ==
    [][ /\ (pc = "idle" /\ result'.op = "destroy_framework") => UNCHANGED globals
        /\ sys_real_prefix # Unset => sys_real_prefix' # Unset
        /\ environ.VIRTUAL_ENV # Unset => environ'.VIRTUAL_ENV # Unset
        /\ environ.PATH # Unset =>
               (environ'.PATH # Unset /\ Len(environ'.PATH) >= Len(environ.PATH))
        /\ Range(sys_path) \subseteq Range(sys_path') ]_vars

\* destroy_framework() has been called after a completed activation
C8_Witness ==
    /\ result.op = "destroy_framework"
    /\ sys_real_prefix # Unset
    /\ environ.VIRTUAL_ENV = base_path
    /\ site_path \in Range(sys_path)

\* the number of the last mutation the running or last init_framework() has
\* made: 1 VIRTUAL_ENV, 2 PATH, 3 sys.path, 4 sys.real_prefix and sys.prefix
MutationsDone ==
    IF pc = "idle"
    THEN IF result.status = "returned"
         THEN (IF result.at = "end" THEN 4 ELSE 0)
         ELSE CASE result.at = "set_path" -> 1
                [] result.at = "addsitedir" -> 2
                [] OTHER -> 0
    ELSE CASE pc = "set_path" -> 1
           [] pc = "addsitedir" -> 2
           [] pc = "set_prefix" -> 3
           [] OTHER -> 0

\* C9: the mutations of an activation are made in the order VIRTUAL_ENV,
\* PATH, sys.path, sys.real_prefix with sys.prefix: in every state of a call,
\* running or ended, exactly the first mutations of this order are made and
\* the rest of the state is as when the call was entered; a call that
\* fails keeps what it has done, so one that fails after the first mutation
\* and before the third leaves VIRTUAL_ENV set to the base path and
\* sys.path, sys.prefix and sys.real_prefix as before the call.
C9_MutationOrder ==
    InitCall =>
        LET n == MutationsDone
            sep == IF system = "Windows" THEN ";" ELSE ":"
            old == IF pre.environ.PATH = Unset THEN <<>> ELSE pre.environ.PATH
        IN  /\ environ.VIRTUAL_ENV =
                  IF n >= 1 THEN base_path ELSE pre.environ.VIRTUAL_ENV
            /\ environ.PATH =
                  IF n >= 2 THEN BinaryDirectory \o <<sep>> \o old
                  ELSE pre.environ.PATH
            /\ n <= 1 => sys_path = pre.sys_path
            /\ n = 2 => /\ Len(sys_path) >= Len(pre.sys_path)
                        /\ SubSeq(sys_path, 1, Len(pre.sys_path)) = pre.sys_path
                        /\ pc = "addsitedir" => sys_path = pre.sys_path
            /\ n >= 3 => /\ site_path \in Range(sys_path)
                         /\ \E k \in 0..Len(sys_path) :
                               SubSeq(sys_path, k + 1, Len(sys_path)) = pre.sys_path
            /\ n <= 3 => /\ sys_prefix = pre.sys_prefix
                         /\ sys_real_prefix = pre.sys_real_prefix
            /\ n = 4 => /\ sys_real_prefix = pre.sys_prefix
                        /\ sys_prefix = base_path

\* a call has failed after setting VIRTUAL_ENV and before touching PATH and
\* sys.path
C9_Witness ==
    /\ pc = "idle"
    /\ InitCall
    /\ result.status = "raised"
    /\ result.at = "set_path"
    /\ environ.VIRTUAL_ENV = base_path
    /\ pre.environ.VIRTUAL_ENV # base_path
    /\ environ.PATH = pre.environ.PATH
    /\ sys_path = pre.sys_path
    /\ sys_real_prefix = pre.sys_real_prefix

\* the number of entries of PATH that are <base-path>/<binary-folder>
BinaryDirectoryCount ==
    LET es == StrSplit(environ.PATH, IF system = "Windows" THEN ";" ELSE ":")
    IN  Cardinality({i \in DOMAIN es : es[i] = BinaryDirectory})

\* C10: activation runs at most once in a process: an init_framework() call
\* made after a completed activation leaves VIRTUAL_ENV, PATH, sys.path,
\* sys.prefix and sys.real_prefix unchanged, so <base-path>/<binary-folder>
\* is in PATH at most once and sys.real_prefix keeps the value sys.prefix
\* had before the first activation. Stated for the processes in which an
\* activation has completed.
C10_ActivatesOnce ==
    /\ (InitCall /\ pre.sys_real_prefix # Unset) =>
           /\ environ = pre.environ
           /\ sys_path = pre.sys_path
           /\ sys_prefix = pre.sys_prefix
           /\ sys_real_prefix = pre.sys_real_prefix
    /\ (sys_real_prefix # Unset /\ base_path # Unset /\ environ.PATH # Unset) =>
           BinaryDirectoryCount <= 1
    /\ sys_real_prefix # Unset => sys_real_prefix = OtherDir

====
